---- MODULE Spec2Model ----
(***************************************************************************)
(* Model of the analysis core of Lotto-2.py: number_frequencies,           *)
(* co_occurrence and predict_next_numbers (lines 43-86).                   *)
(*                                                                         *)
(* A Counter is modelled as the sequence of its items <<key, count>> in    *)
(* insertion order, because Counter.most_common and sorted(..) are stable  *)
(* and so break ties by that order.  The defaultdict co is a function from *)
(* its keys to such Counters.  The random module is a nondeterministic     *)
(* choice of the positions it picks.                                       *)
(*                                                                         *)
(*                                                                         *)
(* The 6/58 draw format and the pool of 20 are scaled down to 2/4 and a    *)
(* pool of 3, which keeps SeedCount <= RecSize < PoolSize < MaxNum as in   *)
(* 2 <= 6 < 20 < 58: a draw holds at least the seeds, the pool can hold    *)
(* more than one draw, and most_common can cut numbers off.                *)
(***************************************************************************)
EXTENDS Integers, Sequences, FiniteSets

\* ------------------------------------------------------ program constants
SeedCount == 2        \* k=min(2, len(top_nums))
PartnerCount == 2     \* sorted_partners[:2]

\* ---------------------------------------------------------------- scale
RecSize == SeedCount      \* numbers per draw (6 in the lottery)
PoolSize == RecSize + 1   \* length of freq.most_common(..) (20 in the code)
MaxNum == PoolSize + 1    \* numbers are 1..MaxNum (58 in the lottery)

\* --------------------------------------------------------------- bounds
MaxRecs == 2          \* longest results list
MaxTopN == 4          \* top_n ranges over 1..MaxTopN
MaxPredictions == 2   \* n_predictions ranges over 1..MaxPredictions

VARIABLES results, top_n, n_predictions, pc, i, freq, co, top_nums,
          predictions, prediction, seeds, drawn

vars == <<results, top_n, n_predictions, pc, i, freq, co, top_nums,
          predictions, prediction, seeds, drawn>>

Numbers == 1..MaxNum

\* ------------------------------------------------------------ sequences
Range(s) == {s[j] : j \in 1..Len(s)}

Injective(s) == \A j, k \in 1..Len(s) : j # k => s[j] # s[k]

Take(s, n) == SubSeq(s, 1, IF n < Len(s) THEN n ELSE Len(s))

RemoveAt(s, j) == SubSeq(s, 1, j - 1) \o SubSeq(s, j + 1, Len(s))

Min(a, b) == IF a < b THEN a ELSE b

\* A validated draw: RecSize distinct numbers, in the order they were drawn.
Draws == {d \in [1..RecSize -> Numbers] : Injective(d)}

RECURSIVE SeqsUpTo(_, _)
SeqsUpTo(S, n) ==
    IF n = 0 THEN {<<>>}
    ELSE LET shorter == SeqsUpTo(S, n - 1)
         IN  shorter \cup {Append(s, x) : s \in {t \in shorter : Len(t) = n - 1}, x \in S}

\* -------------------------------------------------------------- Counter
Keys(c) == {c[j][1] : j \in 1..Len(c)}

\* c[k], 0 for a missing key
CounterGet(c, k) ==
    IF k \in Keys(c) THEN (CHOOSE j \in 1..Len(c) : c[j][1] = k) ELSE 0

Count(c, k) == IF k \in Keys(c) THEN c[CounterGet(c, k)][2] ELSE 0

\* Mutant of CounterInc: a key already present keeps its count (setdefault).
CounterIncNoAccumulate(c, k) ==
    IF k \in Keys(c) THEN c ELSE Append(c, <<k, 1>>)

\* c[k] += 1: a new key goes to the end of the insertion order
CounterInc(c, k) ==
    IF k \in Keys(c)
    THEN [j \in 1..Len(c) |-> IF c[j][1] = k THEN <<k, c[j][2] + 1>> ELSE c[j]]
    ELSE Append(c, <<k, 1>>)

\* Counter.update(iterable)
RECURSIVE CounterUpdate(_, _)
CounterUpdate(c, nums) ==
    IF nums = <<>> THEN c
    ELSE CounterUpdate(CounterInc(c, Head(nums)), Tail(nums))

\* sorted(items, key=lambda x: x[1], reverse=True): stable, so equal counts
\* keep their insertion order
RECURSIVE SortedByCountDesc(_)
SortedByCountDesc(items) ==
    IF items = <<>> THEN <<>>
    ELSE LET best == CHOOSE j \in 1..Len(items) :
                        /\ \A k \in 1..Len(items) : items[k][2] <= items[j][2]
                        /\ \A k \in 1..(j - 1) : items[k][2] < items[j][2]
         IN  <<items[best]>> \o SortedByCountDesc(RemoveAt(items, best))

\* Counter.most_common(n)
MostCommon(c, n) == Take(SortedByCountDesc(c), n)

\* [n for n, _ in freq.most_common(20)]
TopNums(c) == LET mc == MostCommon(c, PoolSize) IN [j \in 1..Len(mc) |-> mc[j][1]]

\* ---------------------------------------------------------- co_occurrence
\* Mutant of CoInc: co[a][b] = 1 instead of += 1.
CoIncAssign(m, a, b) ==
    [x \in DOMAIN m \cup {a} |->
        IF x = a
        THEN LET row == IF a \in DOMAIN m THEN m[a] ELSE <<>>
             IN  IF b \in Keys(row) THEN row ELSE Append(row, <<b, 1>>)
        ELSE m[x]]

\* co[a][b] += 1 on a defaultdict(Counter)
CoInc(m, a, b) ==
    [x \in DOMAIN m \cup {a} |->
        IF x = a THEN CounterInc(IF a \in DOMAIN m THEN m[a] ELSE <<>>, b) ELSE m[x]]

\* Mutant of CoInner: "if a < b", which fills one triangle of the matrix only.
RECURSIVE CoInnerUpper(_, _, _)
CoInnerUpper(m, a, bs) ==
    IF bs = <<>> THEN m
    ELSE CoInnerUpper(IF a < Head(bs) THEN CoInc(m, a, Head(bs)) ELSE m, a, Tail(bs))

\* for b in nums: if a != b: co[a][b] += 1
RECURSIVE CoInner(_, _, _)
CoInner(m, a, bs) ==
    IF bs = <<>> THEN m
    ELSE CoInner(IF a # Head(bs) THEN CoInc(m, a, Head(bs)) ELSE m, a, Tail(bs))

\* for a in nums: ...
RECURSIVE CoOuter(_, _, _)
CoOuter(m, as, nums) ==
    IF as = <<>> THEN m
    ELSE CoOuter(CoInner(m, Head(as), nums), Tail(as), nums)

CoEntry(m, nums) == CoOuter(m, nums, nums)

CoAt(m, a, b) == IF a \in DOMAIN m THEN Count(m[a], b) ELSE 0

\* sorted(co[seed].items(), key=lambda x: x[1], reverse=True)[:2]
SortedPartners(m, seed) == Take(SortedByCountDesc(m[seed]), PartnerCount)

\* Mutant of AddTopPartners: the partners are added without the length test.
RECURSIVE AddTopPartnersUnchecked(_, _, _)
AddTopPartnersUnchecked(pred, partners, n) ==
    IF partners = <<>> THEN pred
    ELSE AddTopPartnersUnchecked(pred \cup {Head(partners)[1]}, Tail(partners), n)

\* for partner, _ in sorted_partners[:2]:
\*     if len(prediction) < top_n: prediction.add(partner)
RECURSIVE AddTopPartners(_, _, _)
AddTopPartners(pred, partners, n) ==
    IF partners = <<>> THEN pred
    ELSE AddTopPartners(IF Cardinality(pred) < n THEN pred \cup {Head(partners)[1]} ELSE pred,
                        Tail(partners), n)

\* for seed in seeds: if seed in co: ...
RECURSIVE AddPartners(_, _, _, _)
AddPartners(pred, sds, m, n) ==
    IF sds = <<>> THEN pred
    ELSE AddPartners(IF Head(sds) \in DOMAIN m
                     THEN AddTopPartners(pred, SortedPartners(m, Head(sds)), n)
                     ELSE pred,
                     Tail(sds), m, n)

\* sorted(prediction)
RECURSIVE SortedList(_)
SortedList(S) ==
    IF S = {} THEN <<>>
    ELSE LET m == CHOOSE x \in S : \A y \in S : x <= y
         IN  <<m>> \o SortedList(S \ {m})

\* random.sample(population, k): k distinct positions, in the order drawn
Samples(n, k) == {s \in [1..k -> 1..n] : Injective(s)}

\* ----------------------------------------------------------------- Init
Init ==
    /\ results \in SeqsUpTo(Draws, MaxRecs)
    /\ top_n \in 1..MaxTopN
    /\ n_predictions \in 1..MaxPredictions
    /\ pc = "freq"
    /\ i = 1
    /\ freq = <<>>
    /\ co = <<>>
    /\ top_nums = <<>>
    /\ predictions = <<>>
    /\ prediction = {}
    /\ seeds = <<>>
    /\ drawn = 0

inputs == <<results, top_n, n_predictions>>

\* ---------------------------------------------------------------- actions
\* number_frequencies: one pass of "for entry in results: cnt.update(..)"
FreqEntry ==
    /\ pc = "freq"
    /\ i <= Len(results)
    /\ freq' = CounterUpdate(freq, results[i])
    /\ i' = i + 1
    /\ UNCHANGED <<inputs, pc, co, top_nums, predictions, prediction, seeds, drawn>>

\* number_frequencies returns; co_occurrence starts
FreqReturn ==
    /\ pc = "freq"
    /\ i > Len(results)
    /\ pc' = "co"
    /\ i' = 1
    /\ UNCHANGED <<inputs, freq, co, top_nums, predictions, prediction, seeds, drawn>>

\* co_occurrence: one pass of "for entry in results: ..."
CoOccurrenceEntry ==
    /\ pc = "co"
    /\ i <= Len(results)
    /\ co' = CoEntry(co, results[i])
    /\ i' = i + 1
    /\ UNCHANGED <<inputs, pc, freq, top_nums, predictions, prediction, seeds, drawn>>

\* co_occurrence returns; top_nums = ...; predictions = []
CoReturn ==
    /\ pc = "co"
    /\ i > Len(results)
    /\ top_nums' = TopNums(freq)
    /\ predictions' = <<>>
    /\ pc' = "loop"
    /\ UNCHANGED <<inputs, i, freq, co, prediction, seeds, drawn>>

\* prediction = set(); seeds = random.sample(..); prediction.update(seeds)
Seed(s) ==
    /\ pc = "loop"
    /\ Len(predictions) < n_predictions
    /\ seeds' = [j \in 1..Len(s) |-> top_nums[s[j]]]
    /\ prediction' = {top_nums[s[j]] : j \in 1..Len(s)}
    /\ pc' = "partners"
    /\ UNCHANGED <<inputs, i, freq, co, top_nums, predictions, drawn>>

\* step 2, "for seed in seeds: ...", up to the start of the while loop
Partners ==
    /\ pc = "partners"
    /\ prediction' = AddPartners(prediction, seeds, co, top_n)
    /\ pc' = "fill"
    /\ UNCHANGED <<inputs, i, freq, co, top_nums, predictions, seeds, drawn>>

\* while len(prediction) < top_n: prediction.add(random.choice(top_nums))
FillDraw(k) ==
    /\ pc = "fill"
    /\ Cardinality(prediction) < top_n
    /\ k \in 1..Len(top_nums)
    /\ drawn' = top_nums[k]
    /\ prediction' = prediction \cup {top_nums[k]}
    /\ UNCHANGED <<inputs, pc, i, freq, co, top_nums, predictions, seeds>>

\* random.choice([]) raises IndexError out of predict_next_numbers
FillIndexError ==
    /\ pc = "fill"
    /\ Cardinality(prediction) < top_n
    /\ Len(top_nums) = 0
    /\ pc' = "IndexError"
    /\ UNCHANGED <<inputs, i, freq, co, top_nums, predictions, prediction, seeds, drawn>>

\* predictions.append(sorted(prediction)).  seeds and the last draw are dead
\* here (line 69 reassigns seeds before any use), so they are put back to
\* their initial values; prediction is left for line 66 to reset.
Emit ==
    /\ pc = "fill"
    /\ Cardinality(prediction) >= top_n
    /\ predictions' = Append(predictions, SortedList(prediction))
    /\ seeds' = <<>>
    /\ drawn' = 0
    /\ pc' = "loop"
    /\ UNCHANGED <<inputs, i, freq, co, top_nums, prediction>>

\* return predictions
Return ==
    /\ pc = "loop"
    /\ Len(predictions) >= n_predictions
    /\ pc' = "done"
    /\ UNCHANGED <<inputs, i, freq, co, top_nums, predictions, prediction, seeds, drawn>>

Next ==
    \/ FreqEntry
    \/ FreqReturn
    \/ CoOccurrenceEntry
    \/ CoReturn
    \/ \E s \in Samples(Len(top_nums), Min(SeedCount, Len(top_nums))) : Seed(s)
    \/ Partners
    \/ \E k \in 1..PoolSize : FillDraw(k)
    \/ FillIndexError
    \/ Emit
    \/ Return

Spec == Init /\ [][Next]_vars

\* number_frequencies(..) and co_occurrence(..) alone, as the application
\* calls them for the chart and the table (lines 126 and 132).
BuildNext ==
    \/ FreqEntry
    \/ FreqReturn
    \/ CoOccurrenceEntry
    \/ CoReturn

BuildSpec == Init /\ [][BuildNext]_vars

\* Fairness of the while loop: it is left once its condition fails, and
\* random.choice keeps drawing every position of top_nums.
FairSpec == Spec /\ WF_vars(Emit) /\ \A k \in 1..PoolSize : WF_vars(FillDraw(k))

\* ------------------------------------------------------------ properties
DistinctNumbers(rs) == UNION {Range(rs[j]) : j \in 1..Len(rs)}

\* the record set has at least top_n numbers of nonzero frequency
Feasible == Cardinality(DistinctNumbers(results)) >= top_n

RECURSIVE SumCounts(_)
SumCounts(c) == IF c = <<>> THEN 0 ELSE Head(c)[2] + SumCounts(Tail(c))

\* records consumed so far by number_frequencies / by co_occurrence
FreqConsumed == IF pc = "freq" THEN i - 1 ELSE Len(results)
CoConsumed == IF pc = "freq" THEN 0 ELSE IF pc = "co" THEN i - 1 ELSE Len(results)

\* how many of the first n records hold both a and b
Together(a, b, n) == Cardinality({j \in 1..n : {a, b} \subseteq Range(results[j])})

\* items ordered by count descending, ties by ascending key
RECURSIVE ByCountThenKey(_)
ByCountThenKey(items) ==
    IF items = <<>> THEN <<>>
    ELSE LET best == CHOOSE j \in 1..Len(items) :
                        \A k \in 1..Len(items) :
                            \/ items[k][2] < items[j][2]
                            \/ items[k][2] = items[j][2] /\ items[j][1] <= items[k][1]
         IN  <<items[best]>> \o ByCountThenKey(RemoveAt(items, best))

ValidPrediction(p) ==
    /\ Len(p) = top_n
    /\ \A j \in 1..Len(p) : p[j] \in Numbers
    /\ \A j, k \in 1..Len(p) : j < k => p[j] < p[k]

\* C1: on a non-empty list of valid draws, with top_n at least the number of
\* seeds (top_n = RecSize, the 6 of 6/58, is such a value), every prediction
\* appended is a strictly ascending list of exactly top_n numbers of
\* 1..MaxNum, and the list returned holds exactly n_predictions of them.
C1_PredictionsValid ==
    (results # <<>> /\ top_n >= SeedCount) =>
        /\ \A j \in 1..Len(predictions) : ValidPrediction(predictions[j])
        /\ Len(predictions) <= n_predictions
        /\ pc = "done" => Len(predictions) = n_predictions

C1_Witness ==
    /\ pc = "done"
    /\ results # <<>>
    /\ top_n = PoolSize
    /\ n_predictions = 2
    /\ Len(predictions) = 2
    /\ predictions[1] # predictions[2]

\* C2: with fewer than top_n numbers of nonzero frequency the call ends in
\* InsufficientData before it seeds: it never reaches the partner step or
\* the fill loop, raises nothing else and returns nothing.
C2_InsufficientData ==
    ~Feasible => pc \notin {"partners", "fill", "IndexError", "done"}

\* C3: with at least top_n numbers of nonzero frequency, and every position
\* of top_nums drawn again and again, the fill loop ends: the combination
\* reaches top_n members and is appended.
C3_FillTerminates ==
    (Feasible /\ pc = "fill") ~> (pc = "loop")

\* C4: the counts add up to RecSize times the number of records consumed,
\* after every record and at the end.
C4_FrequencyConservation ==
    SumCounts(freq) = RecSize * FreqConsumed

C4_Witness ==
    /\ pc = "freq"
    /\ i = 3
    /\ \E n \in Numbers : Count(freq, n) = 2

\* C5: co[a][b] = co[b][a] for all a # b, at every record boundary of the
\* build and afterwards.
C5_CoSymmetry ==
    \A a, b \in Numbers : a # b => CoAt(co, a, b) = CoAt(co, b, a)

C5_Witness ==
    /\ pc = "co"
    /\ i = 2
    /\ Len(results) = 2
    /\ \E a, b \in Numbers : a # b /\ CoAt(co, a, b) = 1

\* C6: co[a][b] is the number of records consumed that hold both a and b,
\* and never exceeds min(freq[a], freq[b]).
C6_CoBound ==
    pc # "freq" =>
        \A a, b \in Numbers : a # b =>
            /\ CoAt(co, a, b) = Together(a, b, CoConsumed)
            /\ CoAt(co, a, b) <= Min(Count(freq, a), Count(freq, b))

C6_Witness ==
    /\ pc = "loop"
    /\ \E a, b \in Numbers :
          /\ a # b
          /\ CoAt(co, a, b) = 2
          /\ Count(freq, a) = 2

\* C7: top_nums holds the PoolSize numbers of highest frequency, ties going
\* to the smaller number, whatever the order of the records.
C7_PoolTiesAscending ==
    pc \notin {"freq", "co"} =>
        Range(top_nums) = Keys(Take(ByCountThenKey(freq), PoolSize))

\* C8: the partners consulted for a seed are ordered by count descending,
\* ties going to the smaller partner, whatever the order of the records.
C8_PartnerTiesAscending ==
    pc = "partners" =>
        \A j \in 1..Len(seeds) :
            seeds[j] \in DOMAIN co =>
                SortedPartners(co, seeds[j]) = Take(ByCountThenKey(co[seeds[j]]), PartnerCount)

\* C10: for every top_n >= 1 the combination never holds more than top_n
\* numbers, and every prediction appended has exactly top_n members.
C10_AtMostTopN ==
    /\ pc \in {"partners", "fill"} => Cardinality(prediction) <= top_n
    /\ \A j \in 1..Len(predictions) : Len(predictions[j]) = top_n

====
